---- MODULE Spec2Model ----
(***************************************************************************)
(* Model of models/compom_no_selection.py: the polynomial mixer (PoM)      *)
(* aggregation, its mask reducers, and the ComPoM module's one-shot and    *)
(* streaming (state_forward) entry points.                                 *)
(*                                                                         *)
(* Numbers.  Tensor entries are exact: a rational is a pair <<n, d>> in    *)
(* lowest terms with d > 0.  The stabiliser 1.e-7 of the mask reducers is  *)
(* kept symbolic: a scalar is a record [a, c, m] standing for              *)
(*      a + c / (m + 1.e-7)                                                *)
(* with a, c, m rationals and m = 0 whenever c = 0, so that two scalars    *)
(* are equal exactly when the records are equal.                           *)
(*                                                                         *)
(* Tensors.  A tensor is [shape |-> <<...>>, data |-> row-major entries],  *)
(* so that dim(), shape[1], expand and broadcasting act on the shape as    *)
(* they do in torch.  A failed torch call is an error record [err, ...].   *)
(***************************************************************************)
EXTENDS Integers, Sequences, FiniteSets, TLC

VARIABLES mod, heap, sess, call, twin

vars == <<mod, heap, sess, call, twin>>

(***************************************************************************)
(* Bounds of the model and the module's construction arguments.            *)
(***************************************************************************)
\* longest context (chunk) and longest query, in positions
MaxLen == 3

MaxQuery == 2

\* calls of one streaming session; calls of two interleaved sessions together
MaxChunks == 3

MaxCalls == 3

\* ComPoM(dim, degree, expand, bias) and the batch size of the inputs
Batch == 1

Dim == 1

Expand == 2

Degrees == {2, 3, 4, 5}

\* entries of the inputs and of the masks
Vals == {-1, 1}

MaskVals == {0, 1}

(***************************************************************************)
(* Exact rational arithmetic.                                              *)
(***************************************************************************)
Abs(x) == IF x < 0 THEN -x ELSE x

RECURSIVE GCD(_, _)
GCD(a, b) == IF b = 0 THEN a ELSE GCD(b, a % b)

\* n / d in lowest terms, for d > 0 and g the gcd of n and d
Lowest(n, d, g) == <<n \div g, d \div g>>

Norm(n, d) == Lowest(n, d, GCD(Abs(n), d))

Zero == <<0, 1>>

RInt(i) == <<i, 1>>

\* x + y over the common denominator l
AddOver(x, y, l) == Norm(x[1] * (l \div x[2]) + y[1] * (l \div y[2]), l)

RAdd(x, y) == AddOver(x, y, (x[2] \div GCD(x[2], y[2])) * y[2])

RMul(x, y) == Norm(x[1] * y[1], x[2] * y[2])

RECURSIVE RPow(_, _)
RPow(x, i) == IF i = 0 THEN RInt(1) ELSE RMul(RPow(x, i - 1), x)

RECURSIVE RSum(_, _)
RSum(f, n) == IF n = 0 THEN Zero ELSE RAdd(RSum(f, n - 1), f[n])

(***************************************************************************)
(* Scalars a + c / (m + 1.e-7).                                            *)
(***************************************************************************)
Scalar(a, c, m) == [a |-> a, c |-> c, m |-> IF c = Zero THEN Zero ELSE m]

SRat(r) == Scalar(r, Zero, Zero)

SScale(r, x) == Scalar(RMul(r, x.a), RMul(r, x.c), x.m)

\* x + y; the two stabilised parts share their denominator wherever the
\* program adds them (entries of one reduced row).
SAdd(x, y) ==
    Scalar(RAdd(x.a, y.a), RAdd(x.c, y.c), IF x.c = Zero THEN y.m ELSE x.m)

RECURSIVE SSum(_, _)
SSum(f, n) == IF n = 0 THEN SRat(Zero) ELSE SAdd(SSum(f, n - 1), f[n])

\* r / (1.e-7 + m)
EpsDiv(r, m) == Scalar(Zero, r, m)

(***************************************************************************)
(* Tensors.                                                                *)
(***************************************************************************)
None == [none |-> TRUE]

IsErr(x) == "err" \in DOMAIN x

IsTensor(x) == "shape" \in DOMAIN x

RuntimeError(what) == [err |-> "RuntimeError", msg |-> what, dim |-> 0]

ValueError(rank) ==
    [err |-> "ValueError", msg |-> "Unsupported mask dimension", dim |-> rank]

\* the entries f[1], ..., f[n] as a tuple, each computed once
RECURSIVE Entries(_, _)
Entries(f, n) == IF n = 0 THEN <<>> ELSE Append(Entries(f, n - 1), f[n])

Tensor3(B, T, D, F(_, _, _)) ==
    [shape |-> <<B, T, D>>,
     data  |-> Entries([i \in 1..(B * T * D) |->
                          F(((i - 1) \div (T * D)) + 1,
                            (((i - 1) \div D) % T) + 1,
                            ((i - 1) % D) + 1)],
                       B * T * D)]

At(t, b, n, d) == t.data[((b - 1) * t.shape[2] + (n - 1)) * t.shape[3] + d]

\* entry (b, n) of a rank-2 mask, entry (b, m, n) of a rank-3 mask
At2(t, b, n) == t.data[(b - 1) * t.shape[2] + n]

\* torch broadcasting rule on one axis
Compatible(p, q) == p = q \/ p = 1 \/ q = 1

Max(p, q) == IF p >= q THEN p ELSE q

\* index into an axis of size p of a tensor broadcast to a larger size
Bc(p, i) == IF p = 1 THEN 1 ELSE i

\* Tensor.expand(shape): an axis keeps its size or grows from size 1
expand(h, shape) ==
    IF \A i \in 1..3 : h.shape[i] = shape[i] \/ h.shape[i] = 1
    THEN Tensor3(shape[1], shape[2], shape[3],
                 LAMBDA b, n, d : At(h, Bc(h.shape[1], b), Bc(h.shape[2], n),
                                     Bc(h.shape[3], d)))
    ELSE RuntimeError("expanded size must match the existing size")

(***************************************************************************)
(* Core polynomial functions.                                              *)
(***************************************************************************)
\* F.gelu at the integers, rounded to the nearest sixth
gelu(x) ==
    CASE x <= -2 -> Zero
      [] x = -1  -> <<-1, 6>>
      [] x = 0   -> Zero
      [] x = 1   -> <<5, 6>>
      [] OTHER   -> RInt(x)

\* (h * coeff).sum(-1) for the powers listed in hs
Contract(hs, c) ==
    RSum([i \in 1..Len(hs) |-> RMul(RInt(c[i]), hs[i])], Len(hs))

po2(x, c) ==
    LET h  == gelu(x)
        h2 == RMul(h, h)
    IN  Contract(<<h, h2>>, c)

po3(x, c) ==
    LET h  == gelu(x)
        h2 == RMul(h, h)
        h3 == RMul(h2, h)
    IN  Contract(<<h, h2, h3>>, c)

po4(x, c) ==
    LET h  == gelu(x)
        h2 == RMul(h, h)
        h3 == RMul(h2, h)
        h4 == RMul(h3, h)
    IN  Contract(<<h, h2, h3, h4>>, c)

\* generic case: torch.cat([h ** i for i in range(k)], dim=-1)
pogeneric(x, c, k) ==
    LET h == gelu(x)
    IN  Contract([j \in 1..k |-> RPow(h, j - 1)], c)

\* the expansion step of polynomial_aggregation_ at one entry of channel d
expansion(x, coeff, d, k) ==
    IF k = 2 THEN po2(x, coeff[d])
    ELSE IF k = 3 THEN po3(x, coeff[d])
    ELSE IF k = 4 THEN po4(x, coeff[d])
    ELSE pogeneric(x, coeff[d], k)

\* the per-position features h of polynomial_aggregation_, before reduction
features(x, coeff, k) ==
    Tensor3(x.shape[1], x.shape[2], x.shape[3],
            LAMBDA b, n, d : expansion(At(x, b, n, d), coeff, d, k))

(***************************************************************************)
(* Masking and aggregation.                                                *)
(***************************************************************************)
\* h.mean(dim=1, keepdims=True)
mean(h) ==
    Tensor3(h.shape[1], 1, h.shape[3],
            LAMBDA b, o, d :
               SRat(RMul(RSum([n \in 1..h.shape[2] |-> At(h, b, n, d)],
                              h.shape[2]),
                         <<1, h.shape[2]>>)))

\* mutant: the masked sum is not divided by the mask's sum
mask_mixer_unnormalised(h, mask) ==
    Tensor3(h.shape[1], 1, h.shape[3],
            LAMBDA b, o, d :
               SRat(RSum([n \in 1..h.shape[2] |->
                            RMul(At(h, b, n, d), RInt(At2(mask, b, n)))],
                         h.shape[2])))

mask_mixer(h, mask) ==
    Tensor3(h.shape[1], 1, h.shape[3],
            LAMBDA b, o, d :
               EpsDiv(RSum([n \in 1..h.shape[2] |->
                              RMul(At(h, b, n, d), RInt(At2(mask, b, n)))],
                           h.shape[2]),
                      RSum([n \in 1..h.shape[2] |-> RInt(At2(mask, b, n))],
                           h.shape[2])))

full_mask_mixer(h, mask) ==
    Tensor3(h.shape[1], mask.shape[2], h.shape[3],
            LAMBDA b, m, d :
               EpsDiv(RSum([n \in 1..h.shape[2] |->
                              RMul(At(h, b, n, d), RInt(At(mask, b, m, n)))],
                           h.shape[2]),
                      RSum([n \in 1..h.shape[2] |-> RInt(At(mask, b, m, n))],
                           h.shape[2])))

\* mutant: a mask of any other rank is taken as no mask
reduce_anyrank(h, mask, shape) ==
    IF mask = None THEN expand(mean(h), shape)
    ELSE IF Len(mask.shape) = 2 THEN expand(mask_mixer(h, mask), shape)
    ELSE IF Len(mask.shape) = 3 THEN expand(full_mask_mixer(h, mask), shape)
    ELSE expand(mean(h), shape)

\* the reduction step of polynomial_aggregation_ and its h.expand(x.shape)
reduce(h, mask, shape) ==
    IF mask = None THEN expand(mean(h), shape)
    ELSE IF Len(mask.shape) = 2 THEN expand(mask_mixer(h, mask), shape)
    ELSE IF Len(mask.shape) = 3 THEN expand(full_mask_mixer(h, mask), shape)
    ELSE ValueError(Len(mask.shape))

polynomial_aggregation_(x, coeff, k, mask) ==
    reduce(features(x, coeff, k), mask, x.shape)

pom(xc, coeff, k, mask) == polynomial_aggregation_(xc, coeff, k, mask)

(***************************************************************************)
(* The ComPoM module.                                                      *)
(***************************************************************************)
\* __init__: the learned parameters, here one fixed draw of the random
\* initialisation; a module built with bias=False has no bias terms.
ComPoM_init(dim, degree, order_expand, bias) ==
    [dim          |-> dim,
     order        |-> degree,
     order_expand |-> order_expand,
     po_w    |-> [c \in 1..(order_expand * dim) |->
                    [j \in 1..dim |-> IF (c + j) % 2 = 0 THEN 1 ELSE -1]],
     po_b    |-> [c \in 1..(order_expand * dim) |-> IF bias THEN c - 1 ELSE 0],
     po_coeff |-> [c \in 1..(order_expand * dim) |->
                    [i \in 1..degree |-> ((c + i) % 3) - 1]],
     ag_w    |-> [j \in 1..dim |-> [c \in 1..(order_expand * dim) |-> c + j - 1]],
     ag_b    |-> [j \in 1..dim |-> IF bias THEN 1 ELSE 0]]

RECURSIVE ISum(_, _)
ISum(f, n) == IF n = 0 THEN 0 ELSE ISum(f, n - 1) + f[n]

\* self.po_proj(x): nn.Linear(dim, expand * dim) on the last axis
po_proj(m, x) ==
    Tensor3(x.shape[1], x.shape[2], m.order_expand * m.dim,
            LAMBDA b, n, c :
               ISum([j \in 1..m.dim |-> m.po_w[c][j] * At(x, b, n, j)], m.dim)
               + m.po_b[c])

\* self.ag_proj(h): nn.Linear(expand * dim, dim) on the last axis
ag_proj(m, h) ==
    Tensor3(h.shape[1], h.shape[2], m.dim,
            LAMBDA b, n, j :
               SAdd(SSum([c \in 1..h.shape[3] |->
                            SScale(RInt(m.ag_w[j][c]), At(h, b, n, c))],
                         h.shape[3]),
                    SRat(RInt(m.ag_b[j]))))

\* mutant: the query is aggregated even when a context is given
context_query(xq, xc) == xq

\* if xc is None: xc = xq
context(xq, xc) == IF xc = None THEN xq ELSE xc

\* return self.ag_proj(sh)
projected(m, sh) == IF IsErr(sh) THEN sh ELSE ag_proj(m, sh)

forward(m, xq, xc, mask) ==
    projected(m, pom(po_proj(m, context(xq, xc)), m.po_coeff, m.order, mask))

\* mutant: the past aggregate is not weighted by its count
merge_unweighted_past(n_past, h_past, n_current, h_current) ==
    IF \A i \in 1..3 : Compatible(h_past.shape[i], h_current.shape[i])
    THEN Tensor3(Max(h_past.shape[1], h_current.shape[1]),
                 Max(h_past.shape[2], h_current.shape[2]),
                 Max(h_past.shape[3], h_current.shape[3]),
                 LAMBDA b, n, d :
                    SScale(<<1, n_past + n_current>>,
                           SAdd(At(h_past, Bc(h_past.shape[1], b),
                                   Bc(h_past.shape[2], n),
                                   Bc(h_past.shape[3], d)),
                                SScale(RInt(n_current),
                                       At(h_current, Bc(h_current.shape[1], b),
                                          Bc(h_current.shape[2], n),
                                          Bc(h_current.shape[3], d))))))
    ELSE RuntimeError("size of tensor a must match the size of tensor b")

\* (n_past * h_past + n_current * h_current) / (n_past + n_current), with
\* torch broadcasting of the two operands
merge(n_past, h_past, n_current, h_current) ==
    IF \A i \in 1..3 : Compatible(h_past.shape[i], h_current.shape[i])
    THEN Tensor3(Max(h_past.shape[1], h_current.shape[1]),
                 Max(h_past.shape[2], h_current.shape[2]),
                 Max(h_past.shape[3], h_current.shape[3]),
                 LAMBDA b, n, d :
                    SScale(<<1, n_past + n_current>>,
                           SAdd(SScale(RInt(n_past),
                                       At(h_past, Bc(h_past.shape[1], b),
                                          Bc(h_past.shape[2], n),
                                          Bc(h_past.shape[3], d))),
                                SScale(RInt(n_current),
                                       At(h_current, Bc(h_current.shape[1], b),
                                          Bc(h_current.shape[2], n),
                                          Bc(h_current.shape[3], d))))))
    ELSE RuntimeError("size of tensor a must match the size of tensor b")

\* new_state = {'h': h, 'n': n}; return self.ag_proj(h), new_state
returned(m, h, n) ==
    IF IsErr(h) THEN h
    ELSE [out |-> ag_proj(m, h), state |-> [h |-> h, n |-> n]]

\* mutant: counts calls, not positions
new_count_calls(n_past, n_current) == n_past + 1

\* the count stored in the new state
new_count(n_past, n_current) == n_past + n_current

\* state_forward from n_current = h_current.shape[1] on
accumulate(m, state, h_current) ==
    IF state # None
    THEN returned(m, merge(state.n, state.h, h_current.shape[2], h_current),
                  new_count(state.n, h_current.shape[2]))
    ELSE returned(m, h_current, new_count(0, h_current.shape[2]))

state_forward(m, xq, xc, state) ==
    accumulate(m, state,
               polynomial_aggregation_(po_proj(m, context(xq, xc)),
                                       m.po_coeff, m.order, None))

(***************************************************************************)
(* Callers: inputs, streaming sessions, one-shot calls.                    *)
(***************************************************************************)
\* input tensors of shape (Batch, T, Dim)
Inputs(T) ==
    {[shape |-> <<Batch, T, Dim>>, data |-> d] :
        d \in [1..(Batch * T * Dim) -> Vals]}

Chunks(L) == UNION {Inputs(T) : T \in 1..L}

\* the input of length T that alternates v, -v, v, ...
Pattern(T, v) ==
    [shape |-> <<Batch, T, Dim>>,
     data  |-> [i \in 1..(Batch * T * Dim) |-> IF i % 2 = 1 THEN v ELSE -v]]

Patterned(L) == {Pattern(T, v) : T \in 1..L, v \in Vals}

\* rank-2 masks (Batch, Tc)
Masks2(Tc) ==
    {[shape |-> <<Batch, Tc>>, data |-> d] : d \in [1..(Batch * Tc) -> MaskVals]}

Ones2(Tc) == [shape |-> <<Batch, Tc>>, data |-> [i \in 1..(Batch * Tc) |-> 1]]

\* rank-3 masks (Batch, Tq, Tc): all ones, causal, diagonal, all zero
Mask3(Tq, Tc, kind) ==
    [shape |-> <<Batch, Tq, Tc>>,
     data  |-> [i \in 1..(Batch * Tq * Tc) |->
                  LET m == (((i - 1) \div Tc) % Tq) + 1
                      n == ((i - 1) % Tc) + 1
                  IN  CASE kind = "ones"   -> 1
                        [] kind = "causal" -> IF n <= m THEN 1 ELSE 0
                        [] kind = "diag"   -> IF n = m THEN 1 ELSE 0
                        [] OTHER           -> 0]]

Masks3(Tq, Tc) == {Mask3(Tq, Tc, kind) : kind \in {"ones", "causal", "diag", "zero"}}

\* masks of rank 0, 1 and 4
MasksOther(Tq, Tc) ==
    {[shape |-> <<>>, data |-> <<1>>],
     [shape |-> <<Tc>>, data |-> [i \in 1..Tc |-> 1]],
     [shape |-> <<Batch, 1, Tq, Tc>>, data |-> [i \in 1..(Batch * Tq * Tc) |-> 1]]}

Masks(Tq, Tc) ==
    {None} \cup Masks2(Tc) \cup Masks3(Tq, Tc) \cup MasksOther(Tq, Tc)

Sessions == {1, 2}

NewSession == [ref |-> 0, out |-> None, status |-> "new", fed |-> <<>>]

NoCall == [op |-> "none"]

\* the state object a session passes to its next call (None before the first)
StateArg(s) == IF sess[s].ref = 0 THEN None ELSE heap[sess[s].ref]

\* mutant: the state object passed in is updated in place and returned
StoreStateInPlace(hp, ref, st) ==
    IF ref = 0 THEN [heap |-> Append(hp, st), ref |-> Len(hp) + 1]
    ELSE [heap |-> [hp EXCEPT ![ref] = st], ref |-> ref]

\* new_state = {...}: the returned state is a new object; the object the
\* caller passed in (ref) is left as it is
StoreState(hp, ref, st) == [heap |-> Append(hp, st), ref |-> Len(hp) + 1]

InitModule ==
    \E degree \in Degrees, bias \in BOOLEAN :
        mod = ComPoM_init(Dim, degree, Expand, bias)

Init ==
    /\ InitModule
    /\ heap = <<>>
    /\ sess = [s \in Sessions |-> NewSession]
    /\ call = NoCall
    /\ twin = NoCall

\* session s calls state_forward(xq, xc, state), threading its own state
StateForwardCall(s, xq, xc) ==
    /\ sess[s].status # "error"
    /\ \E r \in {state_forward(mod, xq, xc, StateArg(s))} :
          IF IsErr(r)
          THEN /\ heap' = heap
               /\ sess' = [sess EXCEPT ![s] =
                             [ref |-> @.ref, out |-> r, status |-> "error",
                              fed |-> Append(@.fed, context(xq, xc))]]
          ELSE \E stored \in {StoreState(heap, sess[s].ref, r.state)} :
                 /\ heap' = stored.heap
                 /\ sess' = [sess EXCEPT ![s] =
                               [ref |-> stored.ref, out |-> r.out,
                                status |-> "ok",
                                fed |-> Append(@.fed, context(xq, xc))]]
    /\ UNCHANGED <<mod, call, twin>>

\* one session streams chunks: the chunk is the context, or it is the query
\* and xc is None
Stream ==
    /\ Len(sess[1].fed) < MaxChunks
    /\ \E c \in Patterned(MaxLen) :
          \E xc \in {c, None} : StateForwardCall(1, c, xc)

Next == Stream

Spec == Init /\ [][Next]_vars

\* two sessions stream their own data in any interleaving
SessionVal(s) == IF s = 1 THEN 1 ELSE -1

Interleave ==
    /\ Len(sess[1].fed) + Len(sess[2].fed) < MaxCalls
    /\ \E s \in Sessions, T \in 1..MaxQuery :
          StateForwardCall(s, Pattern(T, SessionVal(s)), None)

NextSessions == Interleave

SpecSessions == Init /\ [][NextSessions]_vars

\* one one-shot call forward(xq, xc, mask)
ForwardCall ==
    /\ call = NoCall
    /\ \E c \in Chunks(MaxLen), Tq \in 0..MaxQuery :
         \E mask \in Masks(IF Tq = 0 THEN c.shape[2] ELSE Tq, c.shape[2]) :
           \E sh \in {pom(po_proj(mod, c), mod.po_coeff, mod.order, mask)} :
              call' = [op   |-> "forward",
                       xq   |-> IF Tq = 0 THEN c ELSE Pattern(Tq, 1),
                       xc   |-> IF Tq = 0 THEN None ELSE c,
                       mask |-> mask,
                       sh   |-> sh,
                       res  |-> projected(mod, sh)]
    /\ UNCHANGED <<mod, heap, sess, twin>>

NextForward == ForwardCall

SpecForward == Init /\ [][NextForward]_vars

\* state_forward threaded over two chunks, from state = None
thread(m, first, second) ==
    state_forward(m, second, None, state_forward(m, first, None, None).state)

\* two chunks streamed in both orders
OrderCall ==
    /\ call = NoCall
    /\ \E A \in Chunks(MaxLen), B \in Chunks(MaxLen) :
          /\ call' = [op |-> "thread", first |-> A, second |-> B,
                      res |-> thread(mod, A, B)]
          /\ twin' = [op |-> "thread", first |-> B, second |-> A,
                      res |-> thread(mod, B, A)]
    /\ UNCHANGED <<mod, heap, sess>>

NextOrder == OrderCall

SpecOrder == Init /\ [][NextOrder]_vars

\* the same call made with two queries
ForwardPair ==
    /\ call = NoCall
    /\ \E xqA \in Patterned(MaxQuery), xqB \in Patterned(MaxQuery),
          xc \in {None} \cup Patterned(MaxLen) :
         \E mask \in {None, Ones2(IF xc = None THEN xqA.shape[2] ELSE xc.shape[2]),
                      Mask3(xqA.shape[2],
                            IF xc = None THEN xqA.shape[2] ELSE xc.shape[2],
                            "causal")} :
          /\ xc = None => xqA.shape[2] = xqB.shape[2]
          /\ call' = [op |-> "forward", xq |-> xqA, xc |-> xc, mask |-> mask,
                      res |-> forward(mod, xqA, xc, mask)]
          /\ twin' = [op |-> "forward", xq |-> xqB, xc |-> xc, mask |-> mask,
                      res |-> forward(mod, xqB, xc, mask)]
    /\ UNCHANGED <<mod, heap, sess>>

\* the states a caller can hold: None, or the state of a first call
FirstStates ==
    {None} \cup {state_forward(mod, c, None, None).state : c \in Patterned(MaxQuery)}

StateForwardPair ==
    /\ call = NoCall
    /\ \E xqA \in Patterned(MaxQuery), xqB \in Patterned(MaxQuery),
          xc \in {None} \cup Patterned(MaxLen), st \in FirstStates :
          /\ call' = [op |-> "state_forward", xq |-> xqA, xc |-> xc,
                      state |-> st, res |-> state_forward(mod, xqA, xc, st)]
          /\ twin' = [op |-> "state_forward", xq |-> xqB, xc |-> xc,
                      state |-> st, res |-> state_forward(mod, xqB, xc, st)]
    /\ UNCHANGED <<mod, heap, sess>>

NextQuery == ForwardPair \/ StateForwardPair

SpecQuery == Init /\ [][NextQuery]_vars

(***************************************************************************)
(* Properties.                                                             *)
(***************************************************************************)
\* the aggregate a tensor carries: u and v hold the same value per (batch,
\* channel) at every position of their sequence axes
SameAggregate(u, v) ==
    /\ u.shape[1] = v.shape[1]
    /\ u.shape[3] = v.shape[3]
    /\ \A b \in 1..u.shape[1], d \in 1..u.shape[3] :
          \A i \in 1..u.shape[2], j \in 1..v.shape[2] :
             At(u, b, i, d) = At(v, b, j, d)

\* the chunks of a session laid end to end along the sequence axis
cat(x, y) ==
    Tensor3(x.shape[1], x.shape[2] + y.shape[2], x.shape[3],
            LAMBDA b, n, d : IF n <= x.shape[2] THEN At(x, b, n, d)
                             ELSE At(y, b, n - x.shape[2], d))

RECURSIVE SumLens(_)
SumLens(chunks) ==
    IF chunks = <<>> THEN 0 ELSE chunks[1].shape[2] + SumLens(Tail(chunks))

Front(q) == SubSeq(q, 1, Len(q) - 1)

\* C1: streaming two consecutive non-empty chunks (state=None, then the
\* returned state) completes and leaves a state aggregate equal to the
\* aggregate polynomial_aggregation_ with mask=None computes in one pass
\* over the concatenated sequence.
C1_StreamingEqualsOneShot ==
    \A s \in Sessions :
       Len(sess[s].fed) = 2 =>
          /\ sess[s].status = "ok"
          /\ SameAggregate(StateArg(s).h,
                polynomial_aggregation_(
                   po_proj(mod, cat(sess[s].fed[1], sess[s].fed[2])),
                   mod.po_coeff, mod.order, None))

\* C2: the count 'n' of every state a session's call returned is the sum of
\* the lengths of the chunks streamed so far (n1 after the first call); a
\* call that raises returns no state and the caller's state keeps the count
\* of the chunks before it.
C2_CountIsSumOfLengths ==
    \A s \in Sessions :
       /\ sess[s].status = "ok" => StateArg(s).n = SumLens(sess[s].fed)
       /\ sess[s].status = "error" =>
             StateArg(s).n = SumLens(Front(sess[s].fed))

C2_Witness ==
    /\ sess[1].status = "ok"
    /\ Len(sess[1].fed) = 3
    /\ sess[1].fed[1].shape[2] # sess[1].fed[2].shape[2]
    /\ StateArg(1).n = SumLens(sess[1].fed)
    /\ StateArg(1).n > 3

\* C3: the running aggregate state['h'] of every returned state has shape
\* (batch, 1, expand * dim).
C3_StateAggregateShape ==
    \A s \in Sessions :
       sess[s].ref # 0 => StateArg(s).h.shape = <<Batch, 1, Expand * Dim>>

\* C4: with a rank-3 mask (batch, query_length, sequence_length) the
\* aggregation succeeds and its sequence axis has size query_length, entry
\* (b, m, d) being the mask-weighted mean over the context for query m.
C4_PairwiseMaskOutput ==
    (call.op = "forward" /\ call.mask # None /\ Len(call.mask.shape) = 3) =>
       /\ IsTensor(call.sh)
       /\ IsTensor(call.res)
       /\ call.sh.shape[2] = call.mask.shape[2]
       /\ call.res.shape[2] = call.mask.shape[2]
       /\ call.sh =
            full_mask_mixer(features(po_proj(mod, context(call.xq, call.xc)),
                                     mod.po_coeff, mod.order), call.mask)

\* C5: a mask that is not None and whose rank is neither 2 nor 3 ends the
\* call in the 'Unsupported mask dimension' error carrying that rank, with
\* no tensor returned; for rank 2, rank 3 and mask=None that error is never
\* raised.
C5_UnsupportedMaskRank ==
    call.op = "forward" =>
       IF call.mask # None /\ Len(call.mask.shape) \notin {2, 3}
       THEN /\ call.sh = ValueError(Len(call.mask.shape))
            /\ call.res = ValueError(Len(call.mask.shape))
            /\ ~IsTensor(call.res)
       ELSE ~(IsErr(call.res) /\ call.res.msg = "Unsupported mask dimension")

C5_Witness ==
    /\ call.op = "forward"
    /\ call.mask # None
    /\ Len(call.mask.shape) = 4
    /\ IsErr(call.res)
    /\ call.res.dim = 4

\* the polynomial the claim C6 describes: sum over i = 1..k of
\* coeff[:, i-1] * h^i
PowersOneToK(x, c, k) == Contract([i \in 1..k |-> RPow(gelu(x), i)], c)

\* C6: in the generic expansion path (order outside {2, 3, 4}) the
\* per-position feature is the sum over i = 1..k of coeff[:, i-1] * h^i.
C6_GenericPowers ==
    (call.op = "forward" /\ mod.order \notin {2, 3, 4}) =>
       \A b \in 1..Batch, n \in 1..context(call.xq, call.xc).shape[2],
          d \in 1..(Expand * Dim) :
          expansion(At(po_proj(mod, context(call.xq, call.xc)), b, n, d),
                    mod.po_coeff, d, mod.order)
            = PowersOneToK(At(po_proj(mod, context(call.xq, call.xc)), b, n, d),
                           mod.po_coeff[d], mod.order)

\* C7: streaming two chunks A then B and B then A, each from state=None,
\* gives the same outcome: both raise, or both return the same state
\* aggregate and the same count.
C7_OrderIndependent ==
    call.op = "thread" =>
       /\ IsErr(call.res) <=> IsErr(twin.res)
       /\ ~IsErr(call.res) =>
             /\ call.res.state.h = twin.res.state.h
             /\ call.res.state.n = twin.res.state.n

C7_Witness ==
    /\ call.op = "thread"
    /\ call.first.shape[2] = 1
    /\ call.second.shape[2] = 3
    /\ call.first.data[1] # call.second.data[1]
    /\ ~IsErr(call.res)
    /\ ~IsErr(twin.res)
    /\ call.res.state.n = 4

\* a session run alone: state_forward folded over its chunks from state=None
ReplayStep(prev, chunk, r) ==
    IF IsErr(r)
    THEN [status |-> "error", out |-> r, state |-> prev.state]
    ELSE [status |-> "ok", out |-> r.out, state |-> r.state]

RECURSIVE Replay(_)
Replay(chunks) ==
    IF chunks = <<>> THEN [status |-> "new", out |-> None, state |-> None]
    ELSE ReplayStep(Replay(Front(chunks)), chunks[Len(chunks)],
                    state_forward(mod, chunks[Len(chunks)], None,
                                  Replay(Front(chunks)).state))

Isolated ==
    \A s \in Sessions :
       /\ sess[s].status = Replay(sess[s].fed).status
       /\ sess[s].out = Replay(sess[s].fed).out
       /\ StateArg(s) = Replay(sess[s].fed).state

\* C8: with the calls of two sessions interleaved in any order, each
\* session's output and state are those of the session run alone, and a
\* call changes neither the other session nor any state object that exists
\* (the one passed in included).
C8_SessionsIsolated ==
    /\ []Isolated
    /\ [][/\ \A i \in 1..Len(heap) : Len(heap') >= i /\ heap'[i] = heap[i]
          /\ \A s \in Sessions :
                sess'[s] # sess[s] =>
                   \A t \in Sessions \ {s} : sess'[t] = sess[t]]_vars

C8_Witness ==
    /\ Len(sess[1].fed) = 2
    /\ Len(sess[2].fed) = 1
    /\ sess[1].status = "ok"
    /\ sess[2].status = "ok"
    /\ sess[1].ref = 3
    /\ sess[2].ref = 2
    /\ StateArg(1) # StateArg(2)

\* C9 as stated: polynomial_aggregation_ with a rank-2 all-ones mask returns
\* the same result as with mask=None.
C9_OnesMaskEqualsNoMask ==
    (call.op = "forward" /\ call.mask = Ones2(context(call.xq, call.xc).shape[2]))
       => call.sh = polynomial_aggregation_(
                       po_proj(mod, context(call.xq, call.xc)),
                       mod.po_coeff, mod.order, None)

\* the entry sum / (1.e-7 + T) that goes with the unweighted mean sum / T
Stabilised(meanval, T) == EpsDiv(RMul(RInt(T), meanval.a), RInt(T))

\* C9 (amended): with a rank-2 all-ones mask over T positions the result has
\* the shape of the mask=None result and each entry is sum / (T + 1.e-7)
\* where the mask=None entry is the unweighted mean sum / T.
C9_OnesMaskIsStabilisedMean ==
    (call.op = "forward" /\ call.mask = Ones2(context(call.xq, call.xc).shape[2]))
       => /\ IsTensor(call.sh)
          /\ call.sh.shape =
               polynomial_aggregation_(po_proj(mod, context(call.xq, call.xc)),
                                       mod.po_coeff, mod.order, None).shape
          /\ \A i \in 1..Len(call.sh.data) :
               /\ polynomial_aggregation_(
                     po_proj(mod, context(call.xq, call.xc)),
                     mod.po_coeff, mod.order, None).data[i].c = Zero
               /\ call.sh.data[i] =
                    Stabilised(
                       polynomial_aggregation_(
                          po_proj(mod, context(call.xq, call.xc)),
                          mod.po_coeff, mod.order, None).data[i],
                       context(call.xq, call.xc).shape[2])

C9_Witness ==
    /\ call.op = "forward"
    /\ context(call.xq, call.xc).shape[2] = 3
    /\ call.mask = Ones2(3)
    /\ IsTensor(call.sh)
    /\ call.sh.data[1].c # Zero
    /\ call.sh.data[1].m = RInt(3)

====
